---- MODULE Spec2Model ----
(***************************************************************************)
(* Model of the acquisitions REST API: the users table, the token cookie   *)
(* held by a client, and one action per HTTP handler (sign-up, sign-in,    *)
(* sign-out, list, getById, update, delete) with the authentication        *)
(* middleware in front of the /api/users routes.                           *)
(***************************************************************************)
EXTENDS Integers, Sequences, FiniteSets, TLC

\* ------------------------------------------------------------------ bounds
MaxId == 2

\* ------------------------------------------------------- input universes
Absent == "<absent>"
Names == {"Ann"}
Emails == {"a@x.io", "b@x.io"}
BadEmail == "not-an-email"
Passwords == {"pw1", "pw2"}
BadPassword == ""
Roles == {"user", "admin"}
Salts == {"s1"}
BadId == 0
IdParams == 0..MaxId
GuardRoles == Roles \cup {"guest"}

\* users, nextId: the users table and its id sequence; cookie: the cookie jar of
\* the client that sends the requests; last: the most recent request and its
\* response. cookie2 is the jar of a second client and inflight the requests
\* whose handler is between two awaits: both stay as they start except under
\* the specifications SpecTwoClients and SpecRace.
VARIABLES users, nextId, cookie, last, cookie2, inflight

vars == <<users, nextId, cookie, last, cookie2, inflight>>

\* ------------------------------------------------------ password hasher
\* Mutant: the password is stored as given, not hashed.
hashPassword_Plain(password, salt) ==
    [enc |-> "plain", salt |-> salt, text |-> password]

hashPassword(password, salt) ==
    [enc |-> "bcrypt", salt |-> salt, text |-> password]

comparePassword(password, hashedPassword) ==
    hashedPassword.enc = "bcrypt" /\ hashedPassword.text = password

\* ---------------------------------------------------------- token service
jwtSign(payload) ==
    [id |-> payload.id, email |-> payload.email, role |-> payload.role,
     expired |-> FALSE, sig |-> "ok"]

jwtVerifies(token) ==
    token.sig = "ok" /\ ~token.expired

jwtDecoded(token) ==
    [id |-> token.id, email |-> token.email, role |-> token.role]

Forged ==
    [id |-> 1, email |-> "a@x.io", role |-> "admin", expired |-> FALSE, sig |-> "bad"]

\* ------------------------------------------------------ validation schemas
signupSchema(body) ==
    /\ body.name \in Names
    /\ body.email \in Emails
    /\ body.password \in Passwords
    /\ body.role \in Roles \cup {Absent}

signInSchema(body) ==
    /\ body.email \in Emails
    /\ body.password \in Passwords

userIdSchema(idParam) ==
    idParam \in Nat /\ idParam > 0

updateUserSchema(body) ==
    /\ body.name \in Names \cup {Absent}
    /\ body.email \in Emails \cup {Absent}
    /\ body.password \in Passwords \cup {Absent}
    /\ body.role \in Roles \cup {Absent}

\* ----------------------------------------------------------- users table
RowsWithEmail(table, email) == {r \in table : r.email = email}

RowsWithId(table, id) == {r \in table : r.id = id}

EmailUnique(table) ==
    \A r1, r2 \in table : r1.email = r2.email => r1 = r2

\* ------------------------------------------------------------ responses
NoResponse ==
    [op |-> "none", token |-> <<>>, status |-> 0, caller |-> <<>>, id |-> BadId,
     prole |-> Absent,
     user |-> <<>>, users |-> {}, count |-> 0, echo |-> <<>>, setCookie |-> "none",
     calls |-> <<>>, db |-> <<>>, fwd |-> "", email |-> Absent, valid |-> TRUE,
     handler |-> FALSE, roles |-> <<>>, err |-> ""]

\* ------------------------------------------------------------ repository
\* Mutant: the insert leaves the new row as the only row of the table.
dbInsert_Replaces(table, nid, values) ==
    LET row == [id |-> nid, name |-> values.name, email |-> values.email,
                password |-> values.password, role |-> values.role]
    IN [err |-> "", rows |-> {row}, table |-> {row}]

\* INSERT INTO users ... RETURNING: the email column is UNIQUE, id is SERIAL.
\* The timestamp columns created_at and updated_at are not modelled.
dbInsert(table, nid, values) ==
    LET row == [id |-> nid, name |-> values.name, email |-> values.email,
                password |-> values.password, role |-> values.role]
    IN IF RowsWithEmail(table, values.email) # {}
       THEN [err |-> "duplicate key value violates unique constraint",
             rows |-> {}, table |-> table]
       ELSE [err |-> "", rows |-> {row}, table |-> table \cup {row}]

\* Mutant: the UPDATE without its WHERE clause.
dbUpdate_NoWhere(table, id, setData) ==
    LET Set(r) ==
            [id |-> r.id,
             name |-> IF setData.name = Absent THEN r.name ELSE setData.name,
             email |-> IF setData.email = Absent THEN r.email ELSE setData.email,
             password |-> IF setData.password = <<>> THEN r.password
                          ELSE setData.password[1],
             role |-> IF setData.role = Absent THEN r.role ELSE setData.role]
        newTable == {Set(r) : r \in table}
    IN IF ~EmailUnique(newTable) \/ Cardinality(newTable) # Cardinality(table)
       THEN [err |-> "duplicate key value violates unique constraint",
             rows |-> {}, table |-> table]
       ELSE [err |-> "", rows |-> {Set(r) : r \in RowsWithId(table, id)},
             table |-> newTable]

\* Mutant: the email column without its UNIQUE constraint.
dbUpdate_NoUnique(table, id, setData) ==
    LET Set(r) ==
            [id |-> r.id,
             name |-> IF setData.name = Absent THEN r.name ELSE setData.name,
             email |-> IF setData.email = Absent THEN r.email ELSE setData.email,
             password |-> IF setData.password = <<>> THEN r.password
                          ELSE setData.password[1],
             role |-> IF setData.role = Absent THEN r.role ELSE setData.role]
        hit == RowsWithId(table, id)
        newRows == {Set(r) : r \in hit}
    IN [err |-> "", rows |-> newRows, table |-> (table \ hit) \cup newRows]

\* UPDATE users SET ... WHERE id = ... RETURNING: columns named in setData are
\* overwritten, the others keep their values.
dbUpdate(table, id, setData) ==
    LET Set(r) ==
            [id |-> r.id,
             name |-> IF setData.name = Absent THEN r.name ELSE setData.name,
             email |-> IF setData.email = Absent THEN r.email ELSE setData.email,
             password |-> IF setData.password = <<>> THEN r.password
                          ELSE setData.password[1],
             role |-> IF setData.role = Absent THEN r.role ELSE setData.role]
        hit == RowsWithId(table, id)
        newRows == {Set(r) : r \in hit}
        newTable == (table \ hit) \cup newRows
    IN IF ~EmailUnique(newTable)
       THEN [err |-> "duplicate key value violates unique constraint",
             rows |-> {}, table |-> table]
       ELSE [err |-> "", rows |-> newRows, table |-> newTable]

\* DELETE FROM users WHERE id = ... RETURNING
dbDelete(table, id) ==
    [err |-> "", rows |-> RowsWithId(table, id), table |-> table \ RowsWithId(table, id)]

\* ------------------------------------------------------------ auth service
\* Mutant: the result of the hash comparison is ignored.
authenticateUser_NoPasswordCheck(table, args) ==
    LET existingUser == RowsWithEmail(table, args.email)
        user == CHOOSE r \in existingUser : TRUE
    IN IF existingUser = {}
       THEN [err |-> "User not found", user |-> <<>>, db |-> <<"select">>]
       ELSE [err |-> "",
             user |-> <<[id |-> user.id, name |-> user.name, email |-> user.email,
                         role |-> user.role]>>,
             db |-> <<"select">>]

authenticateUser(table, args) ==
    LET existingUser == RowsWithEmail(table, args.email)
        user == CHOOSE r \in existingUser : TRUE
    IN IF existingUser = {}
       THEN [err |-> "User not found", user |-> <<>>, db |-> <<"select">>]
       ELSE IF ~comparePassword(args.password, user.password)
       THEN [err |-> "Invalid password", user |-> <<>>, db |-> <<"select">>]
       ELSE [err |-> "",
             user |-> <<[id |-> user.id, name |-> user.name, email |-> user.email,
                         role |-> user.role]>>,
             db |-> <<"select">>]

\* Mutant: no look-up of the email before the insert.
createUser_NoExistenceCheck(table, nid, args, salt) ==
    LET role == IF args.role = Absent THEN "user" ELSE args.role
        ins == dbInsert(table, nid,
                        [name |-> args.name, email |-> args.email,
                         password |-> hashPassword(args.password, salt), role |-> role])
        newUser == CHOOSE r \in ins.rows : TRUE
    IN IF ins.err # ""
       THEN [err |-> ins.err, user |-> <<>>, table |-> table, nid |-> nid + 1,
             db |-> <<"insert">>]
       ELSE [err |-> "",
             user |-> <<[id |-> newUser.id, name |-> newUser.name,
                         email |-> newUser.email, role |-> newUser.role]>>,
             table |-> ins.table, nid |-> nid + 1, db |-> <<"insert">>]

\* Mutant: the role parameter without its default.
createUser_NoDefaultRole(table, nid, args, salt) ==
    LET existingUser == RowsWithEmail(table, args.email)
        ins == dbInsert(table, nid,
                        [name |-> args.name, email |-> args.email,
                         password |-> hashPassword(args.password, salt),
                         role |-> args.role])
        newUser == CHOOSE r \in ins.rows : TRUE
    IN IF existingUser # {}
       THEN [err |-> "User with this email already exists", user |-> <<>>,
             table |-> table, nid |-> nid, db |-> <<"select">>]
       ELSE [err |-> "",
             user |-> <<[id |-> newUser.id, name |-> newUser.name,
                         email |-> newUser.email, role |-> newUser.role]>>,
             table |-> ins.table, nid |-> nid + 1, db |-> <<"select", "insert">>]

createUser(table, nid, args, salt) ==
    LET role == IF args.role = Absent THEN "user" ELSE args.role
        existingUser == RowsWithEmail(table, args.email)
        password_hash == hashPassword(args.password, salt)
        ins == dbInsert(table, nid,
                        [name |-> args.name, email |-> args.email,
                         password |-> password_hash, role |-> role])
        newUser == CHOOSE r \in ins.rows : TRUE
    IN IF existingUser # {}
       THEN [err |-> "User with this email already exists", user |-> <<>>,
             table |-> table, nid |-> nid, db |-> <<"select">>]
       ELSE IF ins.err # ""
       THEN [err |-> ins.err, user |-> <<>>, table |-> table, nid |-> nid + 1,
             db |-> <<"select", "insert">>]
       ELSE [err |-> "",
             user |-> <<[id |-> newUser.id, name |-> newUser.name,
                         email |-> newUser.email, role |-> newUser.role]>>,
             table |-> ins.table, nid |-> nid + 1, db |-> <<"select", "insert">>]

\* ----------------------------------------------------------- users service
PublicUser(r) ==
    [id |-> r.id, email |-> r.email, name |-> r.name, role |-> r.role]

getAllUsersService(table) ==
    [err |-> "", users |-> {PublicUser(r) : r \in table}, db |-> <<"select">>]

getUserByIdService(table, id) ==
    LET user == RowsWithId(table, id)
    IN IF user = {}
       THEN [err |-> "User not found", user |-> <<>>, db |-> <<"select">>]
       ELSE [err |-> "", user |-> <<PublicUser(CHOOSE r \in user : TRUE)>>,
             db |-> <<"select">>]

\* Mutant: the password of the patch does not reach the UPDATE.
updateUserService_KeepsPassword(table, id, updates, salt) ==
    LET existingUser == RowsWithId(table, id)
        updateData ==
            [name |-> updates.name, email |-> updates.email,
             password |-> <<>>, role |-> updates.role]
        upd == dbUpdate(table, id, updateData)
    IN IF existingUser = {}
       THEN [err |-> "User not found", user |-> <<>>, table |-> table,
             db |-> <<"select">>]
       ELSE IF upd.err # ""
       THEN [err |-> upd.err, user |-> <<>>, table |-> table,
             db |-> <<"select", "update">>]
       ELSE [err |-> "", user |-> <<PublicUser(CHOOSE r \in upd.rows : TRUE)>>,
             table |-> upd.table, db |-> <<"select", "update">>]

\* Mutant: the password of the patch is written as given.
updateUserService_NoHash(table, id, updates, salt) ==
    LET existingUser == RowsWithId(table, id)
        updateData ==
            [name |-> updates.name, email |-> updates.email,
             password |-> IF updates.password = Absent THEN <<>>
                          ELSE <<hashPassword_Plain(updates.password, salt)>>,
             role |-> updates.role]
        upd == dbUpdate(table, id, updateData)
    IN IF existingUser = {}
       THEN [err |-> "User not found", user |-> <<>>, table |-> table,
             db |-> <<"select">>]
       ELSE IF upd.err # ""
       THEN [err |-> upd.err, user |-> <<>>, table |-> table,
             db |-> <<"select", "update">>]
       ELSE [err |-> "", user |-> <<PublicUser(CHOOSE r \in upd.rows : TRUE)>>,
             table |-> upd.table, db |-> <<"select", "update">>]

updateUserService(table, id, updates, salt) ==
    LET existingUser == RowsWithId(table, id)
        updateData ==
            [name |-> updates.name, email |-> updates.email,
             password |-> IF updates.password = Absent THEN <<>>
                          ELSE <<hashPassword(updates.password, salt)>>,
             role |-> updates.role]
        upd == dbUpdate(table, id, updateData)
    IN IF existingUser = {}
       THEN [err |-> "User not found", user |-> <<>>, table |-> table,
             db |-> <<"select">>]
       ELSE IF upd.err # ""
       THEN [err |-> upd.err, user |-> <<>>, table |-> table,
             db |-> <<"select", "update">>]
       ELSE [err |-> "", user |-> <<PublicUser(CHOOSE r \in upd.rows : TRUE)>>,
             table |-> upd.table, db |-> <<"select", "update">>]

\* Mutant: the DELETE is issued without the look-up of the row before it.
deleteUserService_NoExistenceCheck(table, id) ==
    LET del == dbDelete(table, id)
    IN [err |-> "",
        user |-> IF del.rows = {} THEN <<>>
                 ELSE <<PublicUser(CHOOSE r \in del.rows : TRUE)>>,
        table |-> del.table, db |-> <<"delete">>]

deleteUserService(table, id) ==
    LET existingUser == RowsWithId(table, id)
        del == dbDelete(table, id)
        deletedUser == CHOOSE r \in del.rows : TRUE
    IN IF existingUser = {}
       THEN [err |-> "User not found", user |-> <<>>, table |-> table,
             db |-> <<"select">>]
       ELSE [err |-> "",
             user |-> <<[id |-> deletedUser.id, name |-> deletedUser.name,
                         email |-> deletedUser.email, role |-> deletedUser.role]>>,
             table |-> del.table, db |-> <<"select", "delete">>]

\* ----------------------------------------------------------- middleware
\* The cookie a request carries: the client's cookie jar, nothing, or a
\* token whose signature does not verify.
Carries == {"jar", "none", "forged"}

ReqCookie(carry) ==
    IF carry = "jar" THEN cookie
    ELSE IF carry = "forged" THEN <<Forged>>
    ELSE <<>>

\* Mutant: a token that fails verification is decoded and passed on all the same.
authenticateToken_NoVerify(reqCookie) ==
    IF reqCookie = <<>>
    THEN [passed |-> FALSE, status |-> 401, user |-> <<>>]
    ELSE [passed |-> TRUE, status |-> 0, user |-> <<jwtDecoded(reqCookie[1])>>]

authenticateToken(reqCookie) ==
    IF reqCookie = <<>>
    THEN [passed |-> FALSE, status |-> 401, user |-> <<>>]
    ELSE IF ~jwtVerifies(reqCookie[1])
    THEN [passed |-> FALSE, status |-> 401, user |-> <<>>]
    ELSE [passed |-> TRUE, status |-> 0, user |-> <<jwtDecoded(reqCookie[1])>>]

\* The argument of requireRole: an array of role names or one role name.
RoleArrays ==
    {<<>>} \cup {<<a>> : a \in GuardRoles}
           \cup {<<a, b>> : a \in GuardRoles, b \in GuardRoles}

RolesParams ==
    {[isArray |-> TRUE, items |-> arr] : arr \in RoleArrays}
        \cup {[isArray |-> FALSE, value |-> a] : a \in GuardRoles}

\* Array.prototype.includes
includes(arr, x) == \E i \in 1..Len(arr) : arr[i] = x

\* Mutant: the test of includes is inverted.
requireRole_Inverted(roles, reqUser) ==
    LET userRoles == IF roles.isArray THEN roles.items ELSE <<roles.value>>
    IN IF reqUser = <<>>
       THEN [passed |-> FALSE, status |-> 401]
       ELSE IF includes(userRoles, reqUser[1].role)
       THEN [passed |-> FALSE, status |-> 403]
       ELSE [passed |-> TRUE, status |-> 0]

\* requireRole(roles)(req, res, next); reqUser is req.user, <<>> when undefined.
requireRole(roles, reqUser) ==
    LET userRoles == IF roles.isArray THEN roles.items ELSE <<roles.value>>
    IN IF reqUser = <<>>
       THEN [passed |-> FALSE, status |-> 401]
       ELSE IF ~includes(userRoles, reqUser[1].role)
       THEN [passed |-> FALSE, status |-> 403]
       ELSE [passed |-> TRUE, status |-> 0]

\* The requests between two awaits: a slot per concurrent request.
Slots == {"r1", "r2"}

NoRequest ==
    [op |-> "none", pc |-> "idle", body |-> <<>>, id |-> BadId, caller |-> <<>>,
     status |-> 0, user |-> <<>>, fwd |-> "", racing |-> FALSE]

NoneInflight == [s \in Slots |-> NoRequest]

\* A request handled from its arrival to its response with no other request in
\* between, by the client that holds cookie.
Alone == UNCHANGED <<cookie2, inflight>>

Init ==
    /\ users = {}
    /\ nextId = 1
    /\ cookie = <<>>
    /\ last = NoResponse
    /\ cookie2 = <<>>
    /\ inflight = NoneInflight

\* ------------------------------------------------------------ request inputs
SignupBodies ==
    {b \in [name : Names, email : Emails \cup {BadEmail},
            password : Passwords \cup {BadPassword}, role : Roles \cup {Absent}] :
        (b.email = BadEmail \/ b.password = BadPassword) => b.role = Absent}

SigninBodies ==
    [email : Emails \cup {BadEmail}, password : Passwords \cup {BadPassword}]

\* Patches of at most two fields: every field alone, every pair of fields, the
\* empty patch.
UpdateBodies ==
    {b \in [name : Names \cup {Absent}, email : Emails \cup {Absent, BadEmail},
            password : Passwords \cup {Absent, BadPassword},
            role : Roles \cup {Absent}] :
        Cardinality({f \in {"name", "email", "password", "role"} : b[f] # Absent}) <= 2}

\* ------------------------------------------------------------ auth handlers
\* POST /api/auth/sign-up
signup(body, salt) ==
    LET r == createUser(users, nextId, body, salt)
        user == r.user[1]
        token == jwtSign([id |-> user.id, email |-> user.email, role |-> user.role])
        base == [NoResponse EXCEPT !.op = "signup", !.email = body.email,
                                   !.valid = signupSchema(body), !.handler = TRUE]
    IN /\ (signupSchema(body) /\ RowsWithEmail(users, body.email) = {}) => nextId <= MaxId
       /\ IF ~signupSchema(body)
          THEN /\ last' = [base EXCEPT !.status = 400, !.echo = <<body>>]
               /\ UNCHANGED <<users, nextId, cookie>>
          ELSE IF r.err = ""
          THEN /\ users' = r.table
               /\ nextId' = r.nid
               /\ cookie' = <<token>>
               /\ last' = [base EXCEPT !.status = 201, !.setCookie = "set",
                              !.user = <<[id |-> user.id, name |-> user.name,
                                          email |-> user.email, role |-> user.role]>>,
                              !.calls = <<"createUser">>, !.db = r.db]
          ELSE IF r.err = "User with this email already exists"
          THEN /\ last' = [base EXCEPT !.status = 409, !.err = r.err,
                                       !.calls = <<"createUser">>, !.db = r.db]
               /\ users' = r.table
               /\ nextId' = r.nid
               /\ UNCHANGED cookie
          ELSE /\ last' = [base EXCEPT !.status = 500, !.fwd = r.err, !.err = r.err,
                                       !.calls = <<"createUser">>, !.db = r.db]
               /\ users' = r.table
               /\ nextId' = r.nid
               /\ UNCHANGED cookie

\* Mutant: a sign-in with a wrong password clears the cookie.
signin_ClearsOnFailure(body) ==
    LET r == authenticateUser(users, body)
        user == r.user[1]
        token == jwtSign([id |-> user.id, email |-> user.email, role |-> user.role])
        base == [NoResponse EXCEPT !.op = "signin", !.email = body.email,
                                   !.valid = signInSchema(body), !.handler = TRUE]
    IN /\ IF ~signInSchema(body)
          THEN /\ last' = [base EXCEPT !.status = 400, !.echo = <<body>>]
               /\ UNCHANGED cookie
          ELSE IF r.err = ""
          THEN /\ cookie' = <<token>>
               /\ last' = [base EXCEPT !.status = 200, !.setCookie = "set",
                              !.user = <<[id |-> user.id, name |-> user.name,
                                          email |-> user.email, role |-> user.role]>>,
                              !.calls = <<"authenticateUser">>, !.db = r.db]
          ELSE IF r.err = "User not found"
          THEN /\ last' = [base EXCEPT !.status = 404, !.err = r.err,
                              !.calls = <<"authenticateUser">>, !.db = r.db]
               /\ UNCHANGED cookie
          ELSE /\ last' = [base EXCEPT !.status = 401, !.err = r.err,
                              !.calls = <<"authenticateUser">>, !.db = r.db]
               /\ cookie' = <<>>
       /\ UNCHANGED <<users, nextId>>

\* POST /api/auth/sign-in
signin(body) ==
    LET r == authenticateUser(users, body)
        user == r.user[1]
        token == jwtSign([id |-> user.id, email |-> user.email, role |-> user.role])
        base == [NoResponse EXCEPT !.op = "signin", !.email = body.email,
                                   !.valid = signInSchema(body), !.handler = TRUE]
    IN /\ IF ~signInSchema(body)
          THEN /\ last' = [base EXCEPT !.status = 400, !.echo = <<body>>]
               /\ UNCHANGED cookie
          ELSE IF r.err = ""
          THEN /\ cookie' = <<token>>
               /\ last' = [base EXCEPT !.status = 200, !.setCookie = "set",
                              !.user = <<[id |-> user.id, name |-> user.name,
                                          email |-> user.email, role |-> user.role]>>,
                              !.calls = <<"authenticateUser">>, !.db = r.db]
          ELSE IF r.err = "User not found"
          THEN /\ last' = [base EXCEPT !.status = 404, !.err = r.err,
                              !.calls = <<"authenticateUser">>, !.db = r.db]
               /\ UNCHANGED cookie
          ELSE IF r.err = "Invalid password"
          THEN /\ last' = [base EXCEPT !.status = 401, !.err = r.err,
                              !.calls = <<"authenticateUser">>, !.db = r.db]
               /\ UNCHANGED cookie
          ELSE /\ last' = [base EXCEPT !.status = 500, !.fwd = r.err, !.err = r.err,
                              !.calls = <<"authenticateUser">>, !.db = r.db]
               /\ UNCHANGED cookie
       /\ UNCHANGED <<users, nextId>>

\* Mutant: the handler answers without clearing the cookie.
signout_KeepsCookie ==
    /\ last' = [NoResponse EXCEPT !.op = "signout", !.status = 200,
                                  !.handler = TRUE]
    /\ UNCHANGED <<users, nextId, cookie>>

\* POST /api/auth/sign-out
signout ==
    /\ cookie' = <<>>
    /\ last' = [NoResponse EXCEPT !.op = "signout", !.status = 200,
                                  !.setCookie = "clear", !.handler = TRUE]
    /\ UNCHANGED <<users, nextId>>

\* ----------------------------------------------------------- users handlers
\* What a /api/users handler is called with: the request as the middleware
\* passed it on (req.cookies.token, req.user).
Request(op, req) ==
    [NoResponse EXCEPT !.op = op, !.token = req.cookies, !.handler = TRUE,
                       !.caller = <<req.user>>]

\* Mutant: callers other than admins are refused.
getAllUsers_AdminOnly(req) ==
    LET r == getAllUsersService(users)
    IN /\ IF req.user.role # "admin"
          THEN last' = [Request("list", req) EXCEPT !.status = 403]
          ELSE last' = [Request("list", req) EXCEPT
                           !.status = 200, !.users = r.users,
                           !.count = Cardinality(r.users),
                           !.calls = <<"getAllUsers">>, !.db = r.db]
       /\ UNCHANGED <<users, nextId, cookie>>

\* Mutant: the handler signs a new token for the caller and sets the cookie.
getAllUsers_Refreshes(req) ==
    LET r == getAllUsersService(users)
    IN /\ last' = [Request("list", req) EXCEPT
                      !.status = 200, !.users = r.users,
                      !.count = Cardinality(r.users), !.setCookie = "set",
                      !.calls = <<"getAllUsers">>, !.db = r.db]
       /\ cookie' = <<jwtSign(req.user)>>
       /\ UNCHANGED <<users, nextId>>

\* GET /api/users
getAllUsers(req) ==
    LET r == getAllUsersService(users)
    IN /\ last' = [Request("list", req) EXCEPT
                      !.status = 200, !.users = r.users,
                      !.count = Cardinality(r.users),
                      !.calls = <<"getAllUsers">>, !.db = r.db]
       /\ UNCHANGED <<users, nextId, cookie>>

\* Mutant: the id parameter goes to the service unvalidated.
getUserById_NoValidation(req, idParam) ==
    LET r == getUserByIdService(users, idParam)
        base == [Request("getById", req) EXCEPT
                    !.id = idParam, !.valid = userIdSchema(idParam)]
    IN /\ IF r.err = ""
          THEN last' = [base EXCEPT !.status = 200, !.user = r.user,
                           !.calls = <<"getUserById">>, !.db = r.db]
          ELSE last' = [base EXCEPT !.status = 404, !.err = r.err,
                           !.calls = <<"getUserById">>, !.db = r.db]
       /\ UNCHANGED <<users, nextId, cookie>>

\* GET /api/users/:id
getUserById(req, idParam) ==
    LET r == getUserByIdService(users, idParam)
        base == [Request("getById", req) EXCEPT
                    !.id = idParam, !.valid = userIdSchema(idParam)]
    IN /\ IF ~userIdSchema(idParam)
          THEN last' = [base EXCEPT !.status = 400]
          ELSE IF r.err = ""
          THEN last' = [base EXCEPT !.status = 200, !.user = r.user,
                           !.calls = <<"getUserById">>, !.db = r.db]
          ELSE IF r.err = "User not found"
          THEN last' = [base EXCEPT !.status = 404, !.err = r.err,
                           !.calls = <<"getUserById">>, !.db = r.db]
          ELSE last' = [base EXCEPT !.status = 500, !.fwd = r.err, !.err = r.err,
                           !.calls = <<"getUserById">>, !.db = r.db]
       /\ UNCHANGED <<users, nextId, cookie>>

\* Mutant: || where the code has &&.
UpdateDenied_Or(reqUser, id) ==
    reqUser.role # "admin" \/ reqUser.id # id

\* updateUser: if (req.user.role !== 'admin' && req.user.id !== id)
UpdateDenied(reqUser, id) ==
    reqUser.role # "admin" /\ reqUser.id # id

\* Mutant: the role of the caller is not looked at.
RoleChangeDenied_Never(reqUser, updates) ==
    FALSE

\* updateUser: if (updates.role && req.user.role !== 'admin')
RoleChangeDenied(reqUser, updates) ==
    updates.role # Absent /\ reqUser.role # "admin"

\* Mutant: === where the code has !==.
DeleteDenied_Inverted(reqUser, id) ==
    reqUser.role # "admin" /\ reqUser.id = id

\* deleteUser: if (req.user.role !== 'admin' && req.user.id !== id)
DeleteDenied(reqUser, id) ==
    reqUser.role # "admin" /\ reqUser.id # id

\* Mutant: the optional safety measure is left out.
SelfDeleteDenied_Never(reqUser, id) ==
    FALSE

\* deleteUser: if (req.user.role === 'admin' && req.user.id === id)
SelfDeleteDenied(reqUser, id) ==
    reqUser.role = "admin" /\ reqUser.id = id

\* PUT /api/users/:id
updateUser(req, idParam, body, salt) ==
    LET reqUser == req.user
        r == updateUserService(users, idParam, body, salt)
        base == [Request("update", req) EXCEPT
                    !.id = idParam, !.prole = body.role,
                    !.valid = userIdSchema(idParam) /\ updateUserSchema(body)]
    IN /\ IF ~userIdSchema(idParam)
          THEN last' = [base EXCEPT !.status = 400] /\ UNCHANGED users
          ELSE IF ~updateUserSchema(body)
          THEN last' = [base EXCEPT !.status = 400] /\ UNCHANGED users
          ELSE IF UpdateDenied(reqUser, idParam)
          THEN last' = [base EXCEPT !.status = 403] /\ UNCHANGED users
          ELSE IF RoleChangeDenied(reqUser, body)
          THEN last' = [base EXCEPT !.status = 403] /\ UNCHANGED users
          ELSE IF r.err = ""
          THEN /\ last' = [base EXCEPT !.status = 200, !.user = r.user,
                              !.calls = <<"updateUser">>, !.db = r.db]
               /\ users' = r.table
          ELSE IF r.err = "User not found"
          THEN /\ last' = [base EXCEPT !.status = 404, !.err = r.err,
                              !.calls = <<"updateUser">>, !.db = r.db]
               /\ users' = r.table
          ELSE /\ last' = [base EXCEPT !.status = 500, !.fwd = r.err, !.err = r.err,
                              !.calls = <<"updateUser">>, !.db = r.db]
               /\ users' = r.table
       /\ UNCHANGED <<nextId, cookie>>

\* Mutant: the service is called before the caller is authorized.
deleteUser_AuthorizesLast(req, idParam) ==
    LET reqUser == req.user
        r == deleteUserService(users, idParam)
        base == [Request("delete", req) EXCEPT
                    !.id = idParam, !.valid = userIdSchema(idParam)]
    IN /\ IF ~userIdSchema(idParam)
          THEN last' = [base EXCEPT !.status = 400] /\ UNCHANGED users
          ELSE IF r.err = "User not found"
          THEN /\ last' = [base EXCEPT !.status = 404, !.err = r.err,
                              !.calls = <<"deleteUser">>, !.db = r.db]
               /\ users' = r.table
          ELSE IF DeleteDenied(reqUser, idParam) \/ SelfDeleteDenied(reqUser, idParam)
          THEN /\ last' = [base EXCEPT !.status = 403,
                              !.calls = <<"deleteUser">>, !.db = r.db]
               /\ users' = r.table
          ELSE /\ last' = [base EXCEPT !.status = 200, !.user = r.user,
                              !.calls = <<"deleteUser">>, !.db = r.db]
               /\ users' = r.table
       /\ UNCHANGED <<nextId, cookie>>

\* Mutant: the row is looked up before the caller is authorized.
deleteUser_ChecksRowFirst(req, idParam) ==
    LET reqUser == req.user
        r == deleteUserService(users, idParam)
        base == [Request("delete", req) EXCEPT
                    !.id = idParam, !.valid = userIdSchema(idParam)]
    IN /\ IF ~userIdSchema(idParam)
          THEN last' = [base EXCEPT !.status = 400] /\ UNCHANGED users
          ELSE IF RowsWithId(users, idParam) = {}
          THEN last' = [base EXCEPT !.status = 404, !.err = "User not found",
                           !.calls = <<"deleteUser">>, !.db = <<"select">>]
               /\ UNCHANGED users
          ELSE IF DeleteDenied(reqUser, idParam)
          THEN last' = [base EXCEPT !.status = 403] /\ UNCHANGED users
          ELSE IF SelfDeleteDenied(reqUser, idParam)
          THEN last' = [base EXCEPT !.status = 403] /\ UNCHANGED users
          ELSE /\ last' = [base EXCEPT !.status = 200, !.user = r.user,
                              !.calls = <<"deleteUser">>, !.db = r.db]
               /\ users' = r.table
       /\ UNCHANGED <<nextId, cookie>>

\* DELETE /api/users/:id
deleteUser(req, idParam) ==
    LET reqUser == req.user
        r == deleteUserService(users, idParam)
        base == [Request("delete", req) EXCEPT
                    !.id = idParam, !.valid = userIdSchema(idParam)]
    IN /\ IF ~userIdSchema(idParam)
          THEN last' = [base EXCEPT !.status = 400] /\ UNCHANGED users
          ELSE IF DeleteDenied(reqUser, idParam)
          THEN last' = [base EXCEPT !.status = 403] /\ UNCHANGED users
          ELSE IF SelfDeleteDenied(reqUser, idParam)
          THEN last' = [base EXCEPT !.status = 403] /\ UNCHANGED users
          ELSE IF r.err = ""
          THEN /\ last' = [base EXCEPT !.status = 200, !.user = r.user,
                              !.calls = <<"deleteUser">>, !.db = r.db]
               /\ users' = r.table
          ELSE IF r.err = "User not found"
          THEN /\ last' = [base EXCEPT !.status = 404, !.err = r.err,
                              !.calls = <<"deleteUser">>, !.db = r.db]
               /\ users' = r.table
          ELSE /\ last' = [base EXCEPT !.status = 500, !.fwd = r.err, !.err = r.err,
                              !.calls = <<"deleteUser">>, !.db = r.db]
               /\ users' = r.table
       /\ UNCHANGED <<nextId, cookie>>

\* ------------------------------------------------------------------ router
\* The middleware answered the request itself: no handler runs.
Rejected(op, token, mw) ==
    /\ last' = [NoResponse EXCEPT !.op = op, !.token = token, !.status = mw.status]
    /\ UNCHANGED <<users, nextId, cookie>>

\* Mutant: req.user is given the role admin whatever the token says.
Passed_AsAdmin(carry, mw) ==
    [cookies |-> ReqCookie(carry), user |-> [mw.user[1] EXCEPT !.role = "admin"]]

\* Mutant: req.user is given the role of the caller's current row.
Passed_FromRow(carry, mw) ==
    LET rows == RowsWithId(users, mw.user[1].id)
    IN [cookies |-> ReqCookie(carry),
        user |-> IF rows = {} THEN mw.user[1]
                 ELSE [mw.user[1] EXCEPT !.role = (CHOOSE r \in rows : TRUE).role]]

\* req.user = decoded; next()
Passed(carry, mw) ==
    [cookies |-> ReqCookie(carry), user |-> mw.user[1]]

\* router.get('/', authenticateToken, getAllUsers)
RouteList(carry) ==
    LET mw == authenticateToken(ReqCookie(carry))
    IN IF ~mw.passed THEN Rejected("list", ReqCookie(carry), mw)
       ELSE getAllUsers(Passed(carry, mw))

\* router.get('/:id', authenticateToken, getUserById)
RouteGet(carry) ==
    LET mw == authenticateToken(ReqCookie(carry))
    IN IF ~mw.passed THEN Rejected("getById", ReqCookie(carry), mw)
       ELSE \E idParam \in IdParams : getUserById(Passed(carry, mw), idParam)

\* router.put('/:id', authenticateToken, updateUser)
RoutePut(carry) ==
    LET mw == authenticateToken(ReqCookie(carry))
    IN IF ~mw.passed THEN Rejected("update", ReqCookie(carry), mw)
       ELSE \E idParam \in IdParams, body \in UpdateBodies, salt \in Salts :
                updateUser(Passed(carry, mw), idParam, body, salt)

\* router.delete('/:id', authenticateToken, deleteUser)
RouteDelete(carry) ==
    LET mw == authenticateToken(ReqCookie(carry))
    IN IF ~mw.passed THEN Rejected("delete", ReqCookie(carry), mw)
       ELSE \E idParam \in IdParams : deleteUser(Passed(carry, mw), idParam)

\* Time passes the expiry of the token the client holds.
expire ==
    /\ cookie # <<>>
    /\ ~cookie[1].expired
    /\ cookie' = <<[cookie[1] EXCEPT !.expired = TRUE]>>
    /\ UNCHANGED <<users, nextId, last>>

Next ==
    \/ \E body \in SignupBodies, salt \in Salts : signup(body, salt) /\ Alone
    \/ \E body \in SigninBodies : signin(body) /\ Alone
    \/ signout /\ Alone
    \/ \E carry \in Carries : RouteList(carry) /\ Alone
    \/ \E carry \in Carries : RouteGet(carry) /\ Alone
    \/ \E carry \in Carries : RoutePut(carry) /\ Alone
    \/ \E carry \in Carries : RouteDelete(carry) /\ Alone
    \/ expire /\ Alone

Spec == Init /\ [][Next]_vars

\* ------------------------------------------------------------- two clients
\* Two clients, each with its own cookie jar. The client whose jar is cookie
\* sends the requests; the other one takes the turn by switchClient. The
\* requests are sign-ups, sign-ins and deletes; every handler runs alone.
switchClient ==
    /\ cookie' = cookie2
    /\ cookie2' = cookie
    /\ UNCHANGED <<users, nextId, last, inflight>>

NextTwoClients ==
    \/ \E body \in SignupBodies, salt \in Salts :
          signup(body, salt) /\ UNCHANGED <<cookie2, inflight>>
    \/ \E body \in SigninBodies : signin(body) /\ UNCHANGED <<cookie2, inflight>>
    \/ \E carry \in Carries : RouteDelete(carry) /\ UNCHANGED <<cookie2, inflight>>
    \/ switchClient

SpecTwoClients == Init /\ [][NextTwoClients]_vars

\* ----------------------------------------------------- concurrent requests
\* Handlers whose service awaits two statements, as two steps: the arrival of
\* the request up to the result of the first statement (the look-up), and the
\* second statement with the response. Other requests may run in between. Every
\* statement is atomic. The requests are sent by the client that holds cookie.
RaceSignupBodies ==
    [name : Names, email : Emails \cup {BadEmail}, password : {"pw1"},
     role : {Absent}]

RacePatches ==
    [name : Names \cup {Absent}, email : {Absent}, password : {Absent},
     role : {Absent}]

\* The request of slot s becomes r.
Becomes(s, r) == inflight' = [inflight EXCEPT ![s] = r]

\* Another request is between its look-up and its write of the same target.
Overlaps(s, ops, field, value) ==
    {t \in Slots \ {s} :
        /\ inflight[t].pc = "checked" /\ inflight[t].op \in ops
        /\ IF field = "email" THEN inflight[t].body[1].email = value
           ELSE inflight[t].id = value}

\* The look-up found its target free: the request waits for its write; the
\* requests it overlaps with are marked, and so is the request itself.
Checked(s, r, others) ==
    inflight' = [t \in Slots |->
                    IF t = s THEN [r EXCEPT !.pc = "checked", !.racing = others # {}]
                    ELSE IF t \in others THEN [inflight[t] EXCEPT !.racing = TRUE]
                    ELSE inflight[t]]

\* signup up to the result of createUser's select
raceSignupArrive(s, body) ==
    LET r == [NoRequest EXCEPT !.op = "signup", !.body = <<body>>, !.pc = "done"]
    IN /\ inflight[s].pc = "idle"
       /\ IF ~signupSchema(body)
          THEN Becomes(s, [r EXCEPT !.status = 400])
          ELSE IF RowsWithEmail(users, body.email) # {}
          THEN Becomes(s, [r EXCEPT !.status = 409])
          ELSE Checked(s, r, Overlaps(s, {"signup"}, "email", body.email))
       /\ UNCHANGED <<users, nextId, cookie, last, cookie2>>

\* createUser's insert, then the token, the cookie and the response of signup
raceSignupInsert(s, salt) ==
    LET r == inflight[s]
        body == r.body[1]
        ins == dbInsert(users, nextId,
                        [name |-> body.name, email |-> body.email,
                         password |-> hashPassword(body.password, salt),
                         role |-> IF body.role = Absent THEN "user" ELSE body.role])
        newUser == CHOOSE row \in ins.rows : TRUE
        user == [id |-> newUser.id, name |-> newUser.name,
                 email |-> newUser.email, role |-> newUser.role]
    IN /\ r.pc = "checked" /\ r.op = "signup"
       /\ nextId <= MaxId
       /\ nextId' = nextId + 1
       /\ IF ins.err # ""
          THEN /\ Becomes(s, [r EXCEPT !.pc = "done", !.status = 500, !.fwd = ins.err])
               /\ UNCHANGED <<users, cookie>>
          ELSE /\ Becomes(s, [r EXCEPT !.pc = "done", !.status = 201,
                                       !.user = <<user>>])
               /\ users' = ins.table
               /\ cookie' = <<jwtSign([id |-> user.id, email |-> user.email,
                                       role |-> user.role])>>
       /\ UNCHANGED <<last, cookie2>>

\* deleteUser up to the result of the service's select
raceDeleteArrive(s, idParam) ==
    LET mw == authenticateToken(cookie)
        reqUser == mw.user[1]
        r == [NoRequest EXCEPT !.op = "delete", !.id = idParam, !.pc = "done",
                               !.caller = mw.user]
    IN /\ inflight[s].pc = "idle"
       /\ IF ~mw.passed
          THEN Becomes(s, [r EXCEPT !.status = mw.status])
          ELSE IF ~userIdSchema(idParam)
          THEN Becomes(s, [r EXCEPT !.status = 400])
          ELSE IF DeleteDenied(reqUser, idParam) \/ SelfDeleteDenied(reqUser, idParam)
          THEN Becomes(s, [r EXCEPT !.status = 403])
          ELSE IF RowsWithId(users, idParam) = {}
          THEN Becomes(s, [r EXCEPT !.status = 404])
          ELSE Checked(s, r, Overlaps(s, {"update", "delete"}, "id", idParam))
       /\ UNCHANGED <<users, nextId, cookie, last, cookie2>>

\* const [deletedUser] = await db.delete(users).where(...).returning(...), and
\* the 200 of the controller with user: deletedUser
raceDeleteWrite(s) ==
    LET r == inflight[s]
        del == dbDelete(users, r.id)
        deletedUser == IF del.rows = {} THEN <<>>
                       ELSE <<PublicUser(CHOOSE row \in del.rows : TRUE)>>
    IN /\ r.pc = "checked" /\ r.op = "delete"
       /\ users' = del.table
       /\ Becomes(s, [r EXCEPT !.pc = "done", !.status = 200, !.user = deletedUser])
       /\ UNCHANGED <<nextId, cookie, last, cookie2>>

\* updateUser up to the result of the service's select
raceUpdateArrive(s, idParam, body) ==
    LET mw == authenticateToken(cookie)
        reqUser == mw.user[1]
        r == [NoRequest EXCEPT !.op = "update", !.id = idParam, !.pc = "done",
                               !.body = <<body>>, !.caller = mw.user]
    IN /\ inflight[s].pc = "idle"
       /\ IF ~mw.passed
          THEN Becomes(s, [r EXCEPT !.status = mw.status])
          ELSE IF ~(userIdSchema(idParam) /\ updateUserSchema(body))
          THEN Becomes(s, [r EXCEPT !.status = 400])
          ELSE IF UpdateDenied(reqUser, idParam) \/ RoleChangeDenied(reqUser, body)
          THEN Becomes(s, [r EXCEPT !.status = 403])
          ELSE IF RowsWithId(users, idParam) = {}
          THEN Becomes(s, [r EXCEPT !.status = 404])
          ELSE Checked(s, r, Overlaps(s, {"update", "delete"}, "id", idParam))
       /\ UNCHANGED <<users, nextId, cookie, last, cookie2>>

\* const [updatedUser] = await db.update(users).set(...).where(...).returning(...),
\* and the 200 of the controller with user: updatedUser
raceUpdateWrite(s, salt) ==
    LET r == inflight[s]
        updates == r.body[1]
        upd == dbUpdate(users, r.id,
                        [name |-> updates.name, email |-> updates.email,
                         password |-> IF updates.password = Absent THEN <<>>
                                      ELSE <<hashPassword(updates.password, salt)>>,
                         role |-> updates.role])
        updatedUser == IF upd.rows = {} THEN <<>>
                       ELSE <<PublicUser(CHOOSE row \in upd.rows : TRUE)>>
    IN /\ r.pc = "checked" /\ r.op = "update"
       /\ IF upd.err # ""
          THEN /\ Becomes(s, [r EXCEPT !.pc = "done", !.status = 500,
                                       !.fwd = upd.err])
               /\ UNCHANGED users
          ELSE /\ Becomes(s, [r EXCEPT !.pc = "done", !.status = 200,
                                       !.user = updatedUser])
               /\ users' = upd.table
       /\ UNCHANGED <<nextId, cookie, last, cookie2>>

\* The response is delivered: the slot is free for another request.
raceRespond(s) ==
    /\ inflight[s].pc = "done"
    /\ Becomes(s, NoRequest)
    /\ UNCHANGED <<users, nextId, cookie, last, cookie2>>

NextRace ==
    \/ \E s \in Slots, body \in RaceSignupBodies : raceSignupArrive(s, body)
    \/ \E s \in Slots, salt \in Salts : raceSignupInsert(s, salt)
    \/ \E s \in Slots, idParam \in IdParams : raceDeleteArrive(s, idParam)
    \/ \E s \in Slots : raceDeleteWrite(s)
    \/ \E s \in Slots, idParam \in IdParams, body \in RacePatches :
            raceUpdateArrive(s, idParam, body)
    \/ \E s \in Slots, salt \in Salts : raceUpdateWrite(s, salt)
    \/ \E s \in Slots : raceRespond(s)

SpecRace == Init /\ [][NextRace]_vars

\* ------------------------------------------------------ database failures
\* The message of an error the database driver throws when a statement fails.
DriverError == "connection terminated unexpectedly"

\* Mutant: the catch block answers 404 whatever the message is.
forwardError_Answers404(resp, e) ==
    [resp EXCEPT !.status = 404, !.err = e]

\* catch (e) { ... next(e) } for a message the handler does not map: the error
\* goes to the catch-all handler, whose answer is the 500.
forwardError(resp, e) ==
    [resp EXCEPT !.status = 500, !.err = e, !.fwd = e]

\* The service svc was called and the last statement of stmts was rejected
\* by the driver; the service rethrows as e.
serviceRejects(base, svc, stmts, e) ==
    /\ last' = forwardError([base EXCEPT !.calls = <<svc>>, !.db = stmts], e)
    /\ UNCHANGED <<users, nextId, cookie>>

\* The first failAt statements of a service that issues stmts.
Issued(stmts, failAt) == SubSeq(stmts, 1, failAt)

\* POST /api/auth/sign-up when a statement of createUser fails
signupDbError(body, failAt) ==
    /\ signupSchema(body)
    /\ failAt = 2 => RowsWithEmail(users, body.email) = {}
    /\ serviceRejects([NoResponse EXCEPT !.op = "signup", !.email = body.email,
                                         !.handler = TRUE],
                      "createUser", Issued(<<"select", "insert">>, failAt),
                      DriverError)

\* POST /api/auth/sign-in when the select of authenticateUser fails
signinDbError(body) ==
    /\ signInSchema(body)
    /\ serviceRejects([NoResponse EXCEPT !.op = "signin", !.email = body.email,
                                         !.handler = TRUE],
                      "authenticateUser", <<"select">>, DriverError)

\* GET /api/users when the select fails: the service throws its own message
getAllUsersDbError(req) ==
    serviceRejects(Request("list", req), "getAllUsers", <<"select">>,
                   "Failed to retrieve users")

\* GET /api/users/:id when the select fails
getUserByIdDbError(req, idParam) ==
    /\ userIdSchema(idParam)
    /\ serviceRejects([Request("getById", req) EXCEPT !.id = idParam],
                      "getUserById", <<"select">>, DriverError)

\* The patches that differ in what the handler looks at before the service
\* call: the role field, present or not.
RolePatches ==
    [name : {Absent}, email : {Absent}, password : {Absent},
     role : Roles \cup {Absent}]

\* PUT /api/users/:id when a statement of updateUser fails
updateUserDbError(req, idParam, body, failAt) ==
    /\ userIdSchema(idParam) /\ updateUserSchema(body)
    /\ ~UpdateDenied(req.user, idParam)
    /\ ~RoleChangeDenied(req.user, body)
    /\ failAt = 2 => RowsWithId(users, idParam) # {}
    /\ serviceRejects([Request("update", req) EXCEPT
                            !.id = idParam, !.prole = body.role],
                      "updateUser", Issued(<<"select", "update">>, failAt),
                      DriverError)

\* DELETE /api/users/:id when a statement of deleteUser fails
deleteUserDbError(req, idParam, failAt) ==
    /\ userIdSchema(idParam)
    /\ ~DeleteDenied(req.user, idParam)
    /\ ~SelfDeleteDenied(req.user, idParam)
    /\ failAt = 2 => RowsWithId(users, idParam) # {}
    /\ serviceRejects([Request("delete", req) EXCEPT !.id = idParam],
                      "deleteUser", Issued(<<"select", "delete">>, failAt),
                      DriverError)

\* A request to /api/users that the middleware passes on and whose service
\* meets a failing statement.
RouteDbError(carry) ==
    LET mw == authenticateToken(ReqCookie(carry))
        req == Passed(carry, mw)
    IN /\ mw.passed
       /\ \/ getAllUsersDbError(req)
          \/ \E idParam \in IdParams : getUserByIdDbError(req, idParam)
          \/ \E idParam \in IdParams, body \in RolePatches, failAt \in 1..2 :
                updateUserDbError(req, idParam, body, failAt)
          \/ \E idParam \in IdParams, failAt \in 1..2 :
                deleteUserDbError(req, idParam, failAt)

NextDbError ==
    \/ Next
    \/ \E body \in SignupBodies, failAt \in 1..2 :
            signupDbError(body, failAt) /\ Alone
    \/ \E body \in SigninBodies : signinDbError(body) /\ Alone
    \/ \E carry \in Carries : RouteDbError(carry) /\ Alone

SpecDbError == Init /\ [][NextDbError]_vars

\* ------------------------------------------------------------- role guard
\* What req.user can be when requireRole runs: undefined, or the claims of a
\* token.
ReqUsers ==
    {<<>>} \cup {<<c>> : c \in [id : 1..MaxId, email : Emails, role : Roles]}

\* A request reaches requireRole(roles): the guard answers it (status) or calls
\* next (handler) without a response of its own.
guardedRequest(roles, reqUser) ==
    LET g == requireRole(roles, reqUser)
    IN /\ last' = [NoResponse EXCEPT !.op = "guard", !.roles = <<roles>>,
                                     !.caller = reqUser, !.status = g.status,
                                     !.handler = g.passed]
       /\ UNCHANGED <<users, nextId, cookie>>

NextGuard ==
    \E roles \in RolesParams, reqUser \in ReqUsers :
        guardedRequest(roles, reqUser) /\ Alone

SpecGuard == Init /\ [][NextGuard]_vars

\* ===================================================================== claims
ProtectedOps == {"list", "getById", "update", "delete"}

\* C1: for any email e, if a row with email e exists, a well-formed sign-up
\* request with email e is answered 409, inserts no row (the table and the id
\* sequence are as before) and leaves the existing row unchanged in every field.
C1_DuplicateEmailRejected ==
    [][last'.op = "signup" =>
        \A body \in SignupBodies, salt \in Salts :
            (/\ body.email = last'.email
             /\ signupSchema(body)
             /\ RowsWithEmail(users, body.email) # {}
             /\ signup(body, salt))
            => (last'.status = 409 /\ users' = users /\ nextId' = nextId)]_vars

C1_Witness ==
    /\ last.op = "signup" /\ last.status = 409
    /\ RowsWithEmail(users, last.email) # {}

\* A row with id i and email e whose stored hash matches password p.
Registered(table, e, p, i) ==
    \E r \in table : r.id = i /\ r.email = e /\ comparePassword(p, r.password)

\* C2: round trip. (a) A successful sign-up with (name, email, password) leaves a
\* row with the returned id whose email and password hash match; (b) that row
\* changes or disappears only by a successful update or delete of its id; (c) a
\* sign-in with an email and password some row matches is answered 200 and
\* returns the id of that row. So sign-up followed by sign-in with the same
\* credentials, no update or delete of the user in between, yields the same id.
C2_SignupSigninRoundTrip ==
    [][/\ last'.op = "signup" =>
            \A body \in SignupBodies, salt \in Salts :
                (last'.status = 201 /\ body.email = last'.email /\ signup(body, salt))
                => /\ Len(last'.user) = 1
                   /\ Registered(users', body.email, body.password, last'.user[1].id)
       /\ \A r \in users :
            r \notin users'
            => (last'.op \in {"update", "delete"} /\ last'.status = 200
                    /\ last'.id = r.id)
       /\ last'.op = "signin" =>
            \A body \in SigninBodies, i \in 1..MaxId :
                (/\ body.email = last'.email
                 /\ Registered(users, body.email, body.password, i)
                 /\ signin(body))
                => /\ last'.status = 200
                   /\ Len(last'.user) = 1
                   /\ last'.user[1].id = i]_vars

C2_Witness ==
    /\ last.op = "signin" /\ last.status = 200
    /\ \E p \in Passwords : Registered(users, last.email, p, last.user[1].id)

\* C3: a well-formed sign-in request whose email matches a row but whose
\* password does not match the stored hash is answered 401; one whose email
\* matches no row is answered 404; in both cases no token cookie is set.
C3_SigninFailures ==
    [][last'.op = "signin" =>
        \A body \in SigninBodies :
            (body.email = last'.email /\ signInSchema(body) /\ signin(body))
            => /\ RowsWithEmail(users, body.email) = {}
                    => (last'.status = 404 /\ last'.setCookie = "none"
                            /\ cookie' = cookie)
               /\ (\E r \in RowsWithEmail(users, body.email) :
                        ~comparePassword(body.password, r.password))
                    => (last'.status = 401 /\ last'.setCookie = "none"
                            /\ cookie' = cookie)]_vars

C3_Witness ==
    /\ last.op = "signin" /\ last.status = 401 /\ last.valid
    /\ RowsWithEmail(users, last.email) # {}
    /\ cookie # <<>>

C3_WitnessNotFound ==
    /\ last.op = "signin" /\ last.status = 404
    /\ RowsWithEmail(users, last.email) = {}

\* A cookie the token service does not verify: none, a bad signature, expired.
TokenRefused(token) ==
    token = <<>> \/ token[1].sig # "ok" \/ token[1].expired

\* C4: for every request to a /api/users route: if the token cookie is absent or
\* fails verification the request is answered 401, no handler is invoked and no
\* service is called; a handler runs only with the decoded claims of the
\* request's token attached to the request.
C4_NoHandlerWithoutToken ==
    last.op \in ProtectedOps =>
        IF TokenRefused(last.token)
        THEN /\ last.status = 401
             /\ ~last.handler
             /\ last.caller = <<>>
             /\ last.calls = <<>>
        ELSE /\ last.handler
             /\ last.caller = <<jwtDecoded(last.token[1])>>

C4_Witness ==
    /\ last.op = "update" /\ last.status = 401
    /\ last.token # <<>> /\ last.token[1].sig = "ok" /\ last.token[1].expired
    /\ users # {}

\* The request of an update or delete response, as the handler received it.
LastReq == [cookies |-> last'.token, user |-> last'.caller[1]]

\* C5: a well-formed update request whose caller has a role other than admin and
\* whose caller id differs from the target id is answered 403 and changes no
\* row; an update request whose caller has role admin is never answered 403,
\* whatever the target id.
C5_UpdateOwnership ==
    [][(last'.op = "update" /\ last'.handler /\ last'.valid) =>
        /\ (last'.caller[1].role # "admin" /\ last'.caller[1].id # last'.id)
            => (last'.status = 403 /\ users' = users)
        /\ last'.caller[1].role = "admin" => last'.status # 403]_vars

C5_Witness ==
    /\ last.op = "update" /\ last.status = 403 /\ last.valid
    /\ last.caller[1].role = "user" /\ last.caller[1].id # last.id
    /\ last.prole = Absent
    /\ RowsWithId(users, last.id) # {}

C5_WitnessAdmin ==
    /\ last.op = "update" /\ last.status = 200
    /\ last.caller[1].role = "admin" /\ last.caller[1].id # last.id

\* C6: a well-formed update request from a non-admin caller whose patch contains
\* a role field is answered 403 and changes no row, also when the target is the
\* caller's own row; one from an admin caller whose patch contains a role field
\* is never answered 403, and when the target row exists and the patch's email
\* is not the email of another row it is answered 200 and the target row holds
\* the role of the patch.
C6_RoleChangeAdminOnly ==
    [][(last'.op = "update" /\ last'.handler /\ last'.valid /\ last'.prole # Absent) =>
        /\ last'.caller[1].role # "admin" => (last'.status = 403 /\ users' = users)
        /\ last'.caller[1].role = "admin" =>
            /\ last'.status # 403
            /\ \A body \in UpdateBodies, salt \in Salts :
                (/\ body.role = last'.prole
                 /\ RowsWithId(users, last'.id) # {}
                 /\ \A r \in RowsWithEmail(users, body.email) : r.id = last'.id
                 /\ updateUser(LastReq, last'.id, body, salt))
                => /\ last'.status = 200
                   /\ \E r \in users' : r.id = last'.id /\ r.role = last'.prole]_vars

C6_Witness ==
    /\ last.op = "update" /\ last.status = 403 /\ last.valid
    /\ last.caller[1].role = "user" /\ last.caller[1].id = last.id
    /\ last.prole = "admin"
    /\ \E r \in users : r.id = last.id /\ r.role = "user"

C6_WitnessAdmin ==
    /\ last.op = "update" /\ last.status = 200
    /\ last.caller[1].role = "admin" /\ last.caller[1].id # last.id
    /\ last.prole = "admin"
    /\ \E r \in users : r.id = last.id /\ r.role = "admin"

\* C7: a delete request from an admin caller whose target id is the caller's own
\* id is answered 403 and the table stays as it is; one for another id that has
\* a row is answered 200 and the row is gone; an id whose row is gone never has
\* a row again, and a getById of an id without a row is answered 404.
C7_AdminDelete ==
    [][/\ (last'.op = "delete" /\ last'.handler /\ last'.valid
                /\ last'.caller[1].role = "admin") =>
            /\ last'.caller[1].id = last'.id
                => (last'.status = 403 /\ users' = users)
            /\ (last'.caller[1].id # last'.id /\ RowsWithId(users, last'.id) # {})
                => (last'.status = 200 /\ RowsWithId(users', last'.id) = {})
       /\ \A i \in 1..MaxId :
            (i < nextId /\ RowsWithId(users, i) = {}) => RowsWithId(users', i) = {}
       /\ (last'.op = "getById" /\ last'.handler /\ last'.valid
                /\ RowsWithId(users', last'.id) = {})
            => last'.status = 404]_vars

C7_Witness ==
    /\ last.op = "delete" /\ last.status = 200
    /\ last.caller[1].role = "admin" /\ last.caller[1].id # last.id
    /\ RowsWithId(users, last.id) = {}
    /\ RowsWithId(users, last.caller[1].id) # {}

C7_WitnessSelf ==
    /\ last.op = "delete" /\ last.status = 403
    /\ last.caller[1].role = "admin" /\ last.caller[1].id = last.id
    /\ \E r \in users : r.id = last.id /\ r.role = "admin"

C7_WitnessGone ==
    /\ last.op = "getById" /\ last.status = 404
    /\ last.id < nextId /\ last.id # BadId

\* C8: a delete request from a non-admin caller is answered 403 and removes
\* nothing when the target id differs from the caller's id, and is answered 200
\* and removes the row with the caller's id and no other row when the target id
\* is the caller's id and that row exists.
C8_NonAdminDelete ==
    [][(last'.op = "delete" /\ last'.handler /\ last'.valid
            /\ last'.caller[1].role # "admin") =>
        /\ last'.caller[1].id # last'.id => (last'.status = 403 /\ users' = users)
        /\ (last'.caller[1].id = last'.id /\ RowsWithId(users, last'.id) # {})
            => /\ last'.status = 200
               /\ users' = users \ RowsWithId(users, last'.caller[1].id)
               /\ Cardinality(users') = Cardinality(users) - 1]_vars

C8_Witness ==
    /\ last.op = "delete" /\ last.status = 200
    /\ last.caller[1].role = "user" /\ last.caller[1].id = last.id
    /\ RowsWithId(users, last.id) = {}
    /\ users # {}

C8_WitnessOther ==
    /\ last.op = "delete" /\ last.status = 403
    /\ last.caller[1].role = "user" /\ last.caller[1].id # last.id
    /\ RowsWithId(users, last.id) # {}

\* C9: for sign-up, sign-in, getById, update and delete: when the request body
\* or the id parameter fails its validation schema, the handler answers 400,
\* calls no service function and issues no database statement, and the table is
\* as before.
C9_ValidationShortCircuits ==
    [][(last'.op \in {"signup", "signin", "getById", "update", "delete"}
            /\ last'.handler /\ ~last'.valid) =>
        /\ last'.status = 400
        /\ last'.calls = <<>>
        /\ last'.db = <<>>
        /\ users' = users
        /\ nextId' = nextId]_vars

C9_Witness ==
    /\ last.op = "update" /\ last.status = 400 /\ ~last.valid
    /\ last.id # BadId /\ RowsWithId(users, last.id) # {}

C9_WitnessId ==
    /\ last.op = "getById" /\ last.status = 400 /\ ~last.valid /\ last.id = BadId

\* C10: no response of any endpoint, on success or on failure, contains the
\* password of a user row: no user object of a response has a password field,
\* and no response carries a plaintext that matches the stored hash of a row.
C10_NoPasswordInResponse ==
    /\ \A i \in 1..Len(last.user) : "password" \notin DOMAIN last.user[i]
    /\ \A u \in last.users : "password" \notin DOMAIN u
    /\ \A i \in 1..Len(last.echo) :
            "password" \in DOMAIN last.echo[i]
            => \A r \in users : ~comparePassword(last.echo[i].password, r.password)

\* C11: in every reachable state, after any sequence of sign-up, update and
\* delete requests (updates that change the email included), no two rows of the
\* users table have the same email.
C11_EmailsUnique ==
    \A r1, r2 \in users : r1.id # r2.id => r1.email # r2.email

\* An update that would have given a second row the email of another row was
\* refused by the table's constraint.
C11_Witness ==
    /\ last.op = "update" /\ last.status = 500 /\ last.db = <<"select", "update">>
    /\ Cardinality(users) = 2

\* An update changed the email of a row while another row existed.
C11_WitnessChanged ==
    /\ last.op = "update" /\ last.status = 200 /\ Len(last.user) = 1
    /\ Cardinality(users) = 2
    /\ last.user[1].id = 1 /\ last.user[1].email = "b@x.io"

\* C12: after every step the password column of every row holds an output of
\* the hash function (a bcrypt value of one of the passwords), never a value as
\* a request supplied it; and a successful update whose patch has a password
\* leaves in the updated row a hash that matches that password. (The step is
\* recognised by its table: it is the one an update with that password and
\* the returned name and email yields.)
C12_PasswordsHashed ==
    [][/\ \A r \in users' :
            r.password.enc = "bcrypt" /\ r.password.text \in Passwords
       /\ (last'.op = "update" /\ last'.status = 200) =>
            \A password \in Passwords, salt \in Salts :
                LET body == [name |-> last'.user[1].name,
                             email |-> last'.user[1].email,
                             password |-> password, role |-> last'.prole]
                    r == updateUserService(users, last'.id, body, salt)
                IN (updateUserSchema(body) /\ r.err = "" /\ users' = r.table)
                   => \A row \in RowsWithId(users', last'.id) :
                        /\ row.password.enc = "bcrypt"
                        /\ comparePassword(password, row.password)]_vars

\* A successful update of a row that now holds the hash of one password while
\* the other row holds the hash of the other.
C12_Witness ==
    /\ last.op = "update" /\ last.status = 200
    /\ Cardinality(users) = 2
    /\ \A r \in users : r.password.text = (IF r.id = last.id THEN "pw2" ELSE "pw1")

\* The set of roles an argument of requireRole stands for.
AllowedSet(roles) ==
    IF roles.isArray THEN {roles.items[i] : i \in 1..Len(roles.items)}
    ELSE {roles.value}

\* C13: requireRole(allowedSet) answers a request carrying claims with 403,
\* without calling the next handler, when claims.role is not in allowedSet, and
\* calls the next handler without responding when it is; a single role given
\* instead of a set stands for the one-element set; a request carrying no
\* claims is answered 401 and the next handler is not called.
C13_RequireRole ==
    last.op = "guard" =>
        IF last.caller = <<>>
        THEN last.status = 401 /\ ~last.handler
        ELSE IF last.caller[1].role \notin AllowedSet(last.roles[1])
        THEN last.status = 403 /\ ~last.handler
        ELSE last.status = 0 /\ last.handler

\* A single role name, and a caller with another role.
C13_Witness ==
    /\ last.op = "guard" /\ last.status = 403
    /\ ~last.roles[1].isArray /\ last.roles[1].value = "admin"
    /\ last.caller # <<>> /\ last.caller[1].role = "user"

C13_WitnessPassed ==
    /\ last.op = "guard" /\ last.handler /\ last.status = 0
    /\ ~last.roles[1].isArray

C13_WitnessNoClaims ==
    /\ last.op = "guard" /\ last.status = 401 /\ last.caller = <<>>

\* C14: a sign-up request that passes validation and whose email no row has is
\* answered 201 with one user object whose fields are exactly id, name, email
\* and role (no password), equal to the row the request inserted; when the
\* request gives no role, the stored and the returned role are user.
C14_SignupCreated ==
    [][last'.op = "signup" =>
        \A body \in SignupBodies, salt \in Salts :
            (/\ body.email = last'.email
             /\ signupSchema(body)
             /\ RowsWithEmail(users, body.email) = {}
             /\ signup(body, salt))
            => /\ last'.status = 201
               /\ Len(last'.user) = 1
               /\ DOMAIN last'.user[1] = {"id", "name", "email", "role"}
               /\ last'.user[1].name = body.name
               /\ last'.user[1].email = body.email
               /\ last'.user[1].role \in Roles
               /\ body.role = Absent => last'.user[1].role = "user"
               /\ \E r \in users' \ users :
                    /\ r.id = last'.user[1].id
                    /\ r.name = last'.user[1].name
                    /\ r.email = last'.user[1].email
                    /\ r.role = last'.user[1].role]_vars

\* A second user was signed up and got the default role.
C14_Witness ==
    /\ last.op = "signup" /\ last.status = 201
    /\ Len(last.user) = 1 /\ last.user[1].role = "user" /\ last.user[1].id = 2
    /\ \E r \in users : r.id = 2 /\ r.role = "user" /\ r.email = last.email

\* The caller of the request passes the authorization checks of the operation:
\* any authenticated caller for getById; an admin, or the user itself with no
\* role in the patch, for update; an admin for another id, or a non-admin for
\* its own id, for delete.
Authorized(resp) ==
    LET caller == resp.caller[1]
    IN \/ resp.op = "getById"
       \/ /\ resp.op = "update"
          /\ caller.role = "admin" \/ (caller.id = resp.id /\ resp.prole = Absent)
       \/ /\ resp.op = "delete"
          /\ \/ caller.role = "admin" /\ caller.id # resp.id
             \/ caller.role # "admin" /\ caller.id = resp.id

\* C15: a well-formed getById, update or delete request of an authenticated and
\* authorized caller for an id that has no row is answered 404, and the users
\* table is as before.
C15_MissingRowNotFound ==
    [][(/\ last'.op \in {"getById", "update", "delete"}
        /\ last'.handler /\ last'.valid
        /\ cookie' = cookie
        /\ RowsWithId(users, last'.id) = {}
        /\ Authorized(last'))
       => (last'.status = 404 /\ users' = users /\ nextId' = nextId)]_vars

\* An admin deletes an id no row has while its own row exists.
C15_Witness ==
    /\ last.op = "delete" /\ last.status = 404
    /\ last.caller[1].role = "admin" /\ users # {}

\* A user whose row is gone updates its own id.
C15_WitnessSelf ==
    /\ last.op = "update" /\ last.status = 404
    /\ last.caller[1].role = "user" /\ last.caller[1].id = last.id

C15_WitnessGet ==
    /\ last.op = "getById" /\ last.status = 404 /\ users # {}

\* C16: (a) a request to a protected route that carries an expired token is
\* answered 401 by the middleware, no handler runs and the table is as before;
\* (b) a response sets the token cookie only when it answers a successful
\* sign-up or sign-in; (c) a step after which the client holds an unexpired
\* token it did not hold before is a successful sign-up or sign-in, so an
\* expired token stays expired and is refused until one of the two replaces it.
C16_ExpiredStaysRefused ==
    [][/\ (last'.op \in ProtectedOps /\ last'.token # <<>> /\ last'.token[1].expired)
            => (last'.status = 401 /\ ~last'.handler /\ users' = users)
       /\ last'.setCookie = "set"
            => (last'.op \in {"signup", "signin"} /\ last'.status \in {200, 201})
       /\ (cookie' # cookie /\ cookie' # <<>> /\ ~cookie'[1].expired)
            => (/\ last'.op \in {"signup", "signin"}
                /\ last'.status \in {200, 201}
                /\ last'.setCookie = "set")]_vars

\* A request carried the expired token of a user whose row exists.
C16_Witness ==
    /\ last.op \in ProtectedOps /\ last.status = 401
    /\ last.token # <<>> /\ last.token[1].expired /\ last.token[1].sig = "ok"
    /\ cookie = last.token
    /\ RowsWithId(users, last.token[1].id) # {}

\* The client holds an unexpired token after a sign-in.
C16_WitnessRenewed ==
    /\ last.op = "signin" /\ last.status = 200
    /\ cookie # <<>> /\ ~cookie[1].expired

\* C17: (a) a sign-out request, with or without a token, is answered 200 with
\* an instruction to clear the token cookie, after which the client holds no
\* token, and no row of the users table changes; (b) while the client holds no
\* token, each of its requests to a protected route is answered 401 and no
\* handler runs; (c) a client without a token gets one only by a successful
\* sign-in or sign-up.
C17_Signout ==
    [][/\ last'.op = "signout"
            => /\ last'.status = 200
               /\ last'.setCookie = "clear"
               /\ cookie' = <<>>
               /\ users' = users /\ nextId' = nextId
       /\ (cookie = <<>> /\ last'.op \in ProtectedOps /\ last'.token = cookie)
            => (last'.status = 401 /\ ~last'.handler /\ users' = users)
       /\ (cookie = <<>> /\ cookie' # <<>>)
            => (last'.op \in {"signup", "signin"} /\ last'.status \in {200, 201})]_vars

\* Sign-out of a client that held a token, with rows in the table.
C17_Witness ==
    /\ last.op = "signout" /\ last.status = 200 /\ cookie = <<>>
    /\ Cardinality(users) = 2

\* A protected request of a client that holds no token, after a sign-up.
C17_WitnessAfter ==
    /\ last.op \in ProtectedOps /\ last.status = 401 /\ last.token = <<>>
    /\ cookie = <<>> /\ users # {}

\* The messages the handler of an operation answers itself.
MappedMessages(op) ==
    IF op = "signup" THEN {"User with this email already exists"}
    ELSE IF op = "signin" THEN {"User not found", "Invalid password"}
    ELSE IF op \in {"getById", "update", "delete"} THEN {"User not found"}
    ELSE {}

\* The statements a service function issues when none fails, in order.
Statements(svc) ==
    IF svc = "createUser" THEN <<"select", "insert">>
    ELSE IF svc = "updateUser" THEN <<"select", "update">>
    ELSE IF svc = "deleteUser" THEN <<"select", "delete">>
    ELSE <<"select">>

\* C18: when the service of a request failed with a message the handler does
\* not map, the error is what the handler passed to the catch-all handler, the
\* answer is the catch-all's 500 and carries nothing of the handler's own
\* (no user, list, echo or cookie); a mapped message is answered by the handler
\* and not forwarded; nothing is forwarded but the service's error. A request
\* calls at most one service function, and the statements it issued are an
\* initial part of that function's statements, each once: a failed statement
\* is not issued again and nothing is issued after it.
C18_UnmappedForwarded ==
    /\ (last.err # "" /\ last.err \notin MappedMessages(last.op))
        => /\ last.fwd = last.err
           /\ last.status = 500
           /\ last.user = <<>> /\ last.users = {} /\ last.echo = <<>>
           /\ last.setCookie = "none"
    /\ last.err \in MappedMessages(last.op)
        => (last.fwd = "" /\ last.status \in {401, 404, 409})
    /\ last.fwd # "" => last.err = last.fwd
    /\ Len(last.calls) <= 1
    /\ last.calls # <<>>
        => \E k \in 1..Len(Statements(last.calls[1])) :
                last.db = SubSeq(Statements(last.calls[1]), 1, k)
    /\ last.calls = <<>> => last.db = <<>>

\* The DELETE of an existing row was rejected by the driver.
C18_Witness ==
    /\ last.op = "delete" /\ last.fwd = DriverError
    /\ last.db = <<"select", "delete">> /\ last.status = 500
    /\ RowsWithId(users, last.id) # {}

\* The list service rethrew a failure under its own message.
C18_WitnessList ==
    /\ last.op = "list" /\ last.fwd = "Failed to retrieve users"
    /\ last.status = 500

\* An update ran into the unique constraint of the email column.
C18_WitnessConstraint ==
    /\ last.op = "update" /\ last.fwd # "" /\ last.fwd # DriverError
    /\ last.status = 500

\* The statements of a request that write the table.
Writes(db) == {i \in 1..Len(db) : db[i] \in {"insert", "update", "delete"}}

\* C19 as stated: a call of createUser or of authenticateUser that returns
\* without an error has written one row of the users table.
C19_BothWriteOneRow ==
    (last.calls \in {<<"createUser">>, <<"authenticateUser">>} /\ last.err = "")
        => Cardinality(Writes(last.db)) = 1

\* C19, amended: createUser adds exactly one row when it succeeds (every other
\* row stays, the id sequence advances by one) and leaves the table and the id
\* sequence as they were when it refuses the email; authenticateUser only
\* selects: a sign-in, whatever its answer, leaves the table and the id
\* sequence as they were.
C19_RegisterWritesAuthenticateReads ==
    [][/\ last'.op = "signin"
            => /\ users' = users /\ nextId' = nextId
               /\ Writes(last'.db) = {}
       /\ last'.op = "signup" =>
            \A body \in SignupBodies, salt \in Salts :
                (body.email = last'.email /\ signup(body, salt))
                => IF last'.status = 201
                   THEN /\ users \subseteq users'
                        /\ Cardinality(users' \ users) = 1
                        /\ nextId' = nextId + 1
                        /\ last'.db = <<"select", "insert">>
                   ELSE /\ users' = users /\ nextId' = nextId
                        /\ Writes(last'.db) = {}]_vars

\* A successful sign-in with two rows in the table.
C19_Witness ==
    /\ last.op = "signin" /\ last.status = 200
    /\ last.calls = <<"authenticateUser">> /\ last.db = <<"select">>
    /\ Cardinality(users) = 2

\* A sign-up added a second row.
C19_WitnessRegister ==
    /\ last.op = "signup" /\ last.status = 201 /\ Cardinality(users) = 2
    /\ last.db = <<"select", "insert">>

\* C20: a list request that the middleware passed on, whatever the role of the
\* caller, is answered 200 with one object per row of the users table, holding
\* the row's id, email, name and role and no password, and with a count equal
\* to the number of rows; the table is as before.
C20_ListProjection ==
    [][(last'.op = "list" /\ last'.handler) =>
        /\ last'.status = 200
        /\ last'.users =
              {[id |-> r.id, email |-> r.email, name |-> r.name, role |-> r.role] :
                  r \in users}
        /\ last'.count = Cardinality(users)
        /\ users' = users]_vars

\* A caller with the role user lists a table of two rows.
C20_Witness ==
    /\ last.op = "list" /\ last.status = 200
    /\ last.caller[1].role = "user"
    /\ last.count = 2 /\ Cardinality(users) = 2

\* The same for an admin.
C20_WitnessAdmin ==
    /\ last.op = "list" /\ last.status = 200
    /\ last.caller[1].role = "admin"
    /\ last.count = 2

\* Two requests of the given operations that overlapped and are both answered.
BothAnswered(s, t, ops) ==
    /\ s # t
    /\ inflight[s].pc = "done" /\ inflight[t].pc = "done"
    /\ inflight[s].op \in ops /\ inflight[t].op \in ops
    /\ inflight[s].racing /\ inflight[t].racing

\* C21: when two sign-up requests with the same email, which no row had, both
\* ran the look-up of createUser before either inserted, exactly one row with
\* that email exists afterwards, one of the two is answered 201 and the other
\* is answered 409.
C21_RacingSignups ==
    \A s, t \in Slots :
        (/\ BothAnswered(s, t, {"signup"})
         /\ inflight[s].body[1].email = inflight[t].body[1].email)
        => /\ Cardinality(RowsWithEmail(users, inflight[s].body[1].email)) = 1
           /\ {inflight[s].status, inflight[t].status} = {201, 409}

\* C22: under any interleaving of an update or a delete with a delete of the
\* same id, a request that is answered 200 carries the user object of the row
\* with that id which it changed or removed, and no two deletes of the same id
\* (ids are not reused, so of the same row) are both answered 200.
C22_AtomicUpdateDelete ==
    /\ \A s \in Slots :
        (/\ inflight[s].pc = "done" /\ inflight[s].op \in {"update", "delete"}
         /\ inflight[s].status = 200)
        => (Len(inflight[s].user) = 1 /\ inflight[s].user[1].id = inflight[s].id)
    /\ \A s, t \in Slots :
        (/\ BothAnswered(s, t, {"delete"})
         /\ inflight[s].id = inflight[t].id)
        => ~(inflight[s].status = 200 /\ inflight[t].status = 200)

C24_TokenClaims ==
    [][/\ (last'.op \in {"signup", "signin"} /\ last'.status \in {200, 201})
            => /\ cookie' # <<>>
               /\ cookie'[1].sig = "ok"
               /\ DOMAIN jwtDecoded(cookie'[1]) = {"id", "email", "role"}
               /\ \E r \in users' :
                    /\ r.email = last'.email
                    /\ jwtDecoded(cookie'[1])
                         = [id |-> r.id, email |-> r.email, role |-> r.role]
       /\ (last'.op \in ProtectedOps /\ last'.handler)
            => /\ last'.token # <<>>
               /\ last'.token[1].sig = "ok" /\ ~last'.token[1].expired
               /\ last'.caller
                    = <<[id |-> last'.token[1].id, email |-> last'.token[1].email,
                         role |-> last'.token[1].role]>>]_vars

\* A sign-in issued a token for a row with the role admin.
C24_Witness ==
    /\ last.op = "signin" /\ last.status = 200
    /\ cookie # <<>> /\ cookie[1].role = "admin" /\ ~cookie[1].expired
    /\ \E r \in users : r.id = cookie[1].id /\ r.role = "admin"

\* A handler ran with the claims of a token whose row has meanwhile got
\* another role.
C24_WitnessLater ==
    /\ last.op \in ProtectedOps /\ last.handler /\ last.op # "update"
    /\ \E r \in users : r.id = last.caller[1].id /\ r.role # last.caller[1].role

\* The authorization checks of update and delete refuse the request, by the
\* claims of its caller.
Forbidden(resp) ==
    LET caller == resp.caller[1]
    IN IF resp.op = "update"
       THEN \/ caller.role # "admin" /\ caller.id # resp.id
            \/ resp.prole # Absent /\ caller.role # "admin"
       ELSE \/ caller.role # "admin" /\ caller.id # resp.id
            \/ caller.role = "admin" /\ caller.id = resp.id

\* C25: an update or delete request is answered by the first check that fails,
\* in the order authentication (401), validation of id and body (400),
\* authorization (403), existence of the row (404): 401 whenever the token is
\* refused; else 400 whenever id or body is invalid, whoever the caller; else
\* 403 whenever the caller is not authorized, whether or not the id has a row;
\* else 404 when the id has no row; and never 404, 403 or 400 when an earlier
\* check of the order fails.
C25_CheckOrder ==
    [][last'.op \in {"update", "delete"} =>
        /\ TokenRefused(last'.token) <=> last'.status = 401
        /\ TokenRefused(last'.token) <=> ~last'.handler
        /\ last'.handler =>
            /\ ~last'.valid <=> last'.status = 400
            /\ last'.valid => (Forbidden(last') <=> last'.status = 403)
            /\ (last'.valid /\ ~Forbidden(last') /\ cookie' = cookie)
                => (RowsWithId(users, last'.id) = {} <=> last'.status = 404)]_vars

\* A non-admin addresses another id that has no row: 403, not 404.
C25_Witness ==
    /\ last.op = "delete" /\ last.status = 403
    /\ last.caller[1].role # "admin" /\ last.caller[1].id # last.id
    /\ RowsWithId(users, last.id) = {}

\* An invalid request of a caller that would not be authorized: 400, not 403.
C25_WitnessInvalid ==
    /\ last.op = "update" /\ last.status = 400 /\ last.id # BadId
    /\ last.caller[1].role # "admin" /\ last.caller[1].id # last.id

\* C26: a step after which the latest response is a 400, 401, 403, 404 or 409
\* of sign-up, sign-in, getById, update or delete (the 401 of the middleware
\* included) leaves the users table and the id sequence exactly as they were.
C26_FailuresWriteNothing ==
    [][(/\ last'.op \in {"signup", "signin", "getById", "update", "delete"}
        /\ last'.status \in {400, 401, 403, 404, 409})
       => (users' = users /\ nextId' = nextId
            /\ \A i \in 1..Len(last'.db) : last'.db[i] = "select")]_vars

\* A delete refused with 403 while the addressed row exists.
C26_Witness ==
    /\ last.op = "delete" /\ last.status = 403
    /\ RowsWithId(users, last.id) # {}

\* A sign-up refused with 409.
C26_WitnessConflict ==
    /\ last.op = "signup" /\ last.status = 409 /\ Cardinality(users) = 2

\* The row with id i of a table (there is at most one).
RowOf(table, i) == CHOOSE r \in table : r.id = i

\* The fields a patch does not name have in row new the values of row old.
Untouched(body, old, new) ==
    /\ new.id = old.id
    /\ body.name = Absent => new.name = old.name
    /\ body.email = Absent => new.email = old.email
    /\ body.password = Absent => new.password = old.password
    /\ body.role = Absent => new.role = old.role

C27_WitnessDelete ==
    /\ last.op = "delete" /\ last.status = 200 /\ Cardinality(users) = 1
    /\ \A r \in users : r.id # last.id

\* What the token claims alone say about an update or delete request of id i
\* with role prole in its patch: TRUE when the request is to be refused.
ClaimsForbid(claims, op, i, prole) ==
    IF op = "update"
    THEN \/ claims.role # "admin" /\ claims.id # i
         \/ prole # Absent /\ claims.role # "admin"
    ELSE \/ claims.role # "admin" /\ claims.id # i
         \/ claims.role = "admin" /\ claims.id = i

\* C28: a well-formed update or delete request whose token is accepted is
\* answered 403 exactly when the id and role of the token claims forbid it,
\* whatever the row of the caller holds and whether or not that row exists, and
\* it is never answered 401.
C28_ClaimsOnly ==
    [][(/\ last'.op \in {"update", "delete"}
        /\ ~TokenRefused(last'.token)
        /\ last'.valid)
       => LET claims == jwtDecoded(last'.token[1])
          IN /\ last'.status = 403
                   <=> ClaimsForbid(claims, last'.op, last'.id, last'.prole)
             /\ last'.status # 401]_vars

\* A caller whose stored role is no longer admin updated the row of another
\* user with a token that says admin.
C28_Witness ==
    /\ last.op = "update" /\ last.status = 200
    /\ last.token # <<>> /\ last.token[1].role = "admin"
    /\ last.token[1].id # last.id
    /\ \E r \in users : r.id = last.token[1].id /\ r.role = "user"

\* A caller whose row was deleted asked for its own id and passed the
\* authorization checks.
C28_WitnessDeleted ==
    /\ last.op \in {"update", "delete"} /\ last.status = 404
    /\ last.token # <<>> /\ last.token[1].id = last.id
    /\ RowsWithId(users, last.token[1].id) = {}

Admins(table) == {r \in table : r.role = "admin"}

\* C29: when the users table holds a row with role admin, a delete request
\* leaves it with a row with role admin.
C29_AdminRemains ==
    [][(Admins(users) # {} /\ last'.op = "delete") => Admins(users') # {}]_vars

\* C30: a sign-up or sign-in request sets the token cookie exactly when it is
\* answered 201 (sign-up) or 200 (sign-in), and then the jar holds a fresh
\* token of the user in the response; answered 400, 401, 404 or 409 it sends
\* no cookie and the jar is as before. (The steps in which only time passes
\* are left out: they follow a response, they are not one.)
C30_CookieIffSuccess ==
    [][(last'.op \in {"signup", "signin"} /\ ~expire)
       => /\ last'.setCookie = "set"
                <=> last'.status = (IF last'.op = "signup" THEN 201 ELSE 200)
          /\ last'.setCookie = "set"
                => /\ cookie' # <<>>
                   /\ ~TokenRefused(cookie')
                   /\ cookie'[1].id = last'.user[1].id
          /\ last'.status \in {400, 401, 404, 409}
                => (last'.setCookie = "none" /\ cookie' = cookie)]_vars

\* A sign-in with a wrong password was refused while the client held a token
\* that is still accepted.
C30_Witness ==
    /\ last.op = "signin" /\ last.status = 401
    /\ ~TokenRefused(cookie)

\* A sign-in succeeded and the jar holds the token of the user.
C30_WitnessSet ==
    /\ last.op = "signin" /\ last.status = 200 /\ last.setCookie = "set"
    /\ ~TokenRefused(cookie) /\ cookie[1].id = last.user[1].id
====
